---- MODULE Spec2Model ----
(***************************************************************************)
(* Maze game (main.py): maze carving by a randomized depth-first          *)
(* backtracker, fruit placement, the per-tick update with wall collision  *)
(* resolution and fruit collection, restart, and the statistics that are  *)
(* loaded at start and saved at stop.                                     *)
(*                                                                         *)
(* The arena of the program is 600x600 with 25-pixel cells, a 23x23 grid   *)
(* whose odd/odd cells form an 11x11 lattice.  The model keeps the cell    *)
(* size and the speed of the program and scales the arena down to a       *)
(* lattice of MazeLat (carving) or GameLat (placement, game) cells per     *)
(* side: ArenaSize(11) is the program's 600.                               *)
(***************************************************************************)
EXTENDS Integers, Sequences, FiniteSets, Bags, TLC

VARIABLES
    pc,                 \* position of the program: see the specifications
    maze,               \* generate_maze: maze[y][x], 1 = wall, 0 = open
    stack,              \* generate_maze: the backtracker's stack of <<x, y>>
    pushes,             \* history: bag of the cells put on the stack
    draws,              \* history: iterations of the placement loop so far
    number_fruit,       \* generate_maze: fruits still to place
    placed,             \* bag of the cells <<x, y>> a GameFruit was created on
    fruits,             \* number of sprites alive in the group self.fruits
    player_obstacles,   \* bag of the cells <<x, y>> holding a Wall sprite
    player,             \* self.player.rect as <<left, top>>
    is_move_y,          \* self.player.is_move_y
    score, best_score, completed_level,
    next_number_fruits, is_completed_level, running,
    most_more_best_score, most_more_completed_level,
    last_best_score, last_completed_level,
    settings,           \* self.settings, the record loaded from the file
    file,               \* settings.json: [kind, data], kind "missing" or "json"
    depth,              \* number of active invocations of run_game
    loaded,             \* history: the record this session started from
    max_session_best,   \* history: largest best_score of a finished session
    sessions            \* history: number of sessions started

vars == <<pc, maze, stack, pushes, draws, number_fruit, placed, fruits,
          player_obstacles,
          player, is_move_y, score, best_score, completed_level,
          next_number_fruits, is_completed_level, running,
          most_more_best_score, most_more_completed_level,
          last_best_score, last_completed_level, settings, file, depth,
          loaded, max_session_best, sessions>>

genVars == <<maze, stack, pushes, draws, number_fruit, placed, fruits,
             player_obstacles>>
playerVars == <<player, is_move_y>>
statVars == <<score, best_score, completed_level, next_number_fruits,
              is_completed_level, running, most_more_best_score,
              most_more_completed_level, last_best_score,
              last_completed_level, settings, file, depth, loaded,
              max_session_best, sessions>>

----------------------------------------------------------------------------
(* Bounds *)

MazeLat == 3        \* lattice cells per side when carving is explored step by step
GameLat == 2        \* lattice cells per side of the levels of a game session
MaxRestarts == 1    \* restarts per session
MaxSessions == 2    \* sessions played one after the other
MaxWalk == 3        \* moves the player is followed away from the spawn
MaxStored == 1      \* largest value of a field of a settings.json found at start
MaxDraws == 8       \* iterations of the placement loop that are counted

----------------------------------------------------------------------------
(* Program constants *)

screen_width == 600
screen_height == 600
cell_size == 25
player_speed == 5
first_number_fruits == 3
fruit_region_start == 8

Max(a, b) == IF a >= b THEN a ELSE b
Abs(n) == IF n < 0 THEN -n ELSE n
Dist(a, b) == Abs(a[1] - b[1]) + Abs(a[2] - b[2])

\* The arena side for a lattice of lat cells per side; 600 for lat = 11.
ArenaSize(lat) == cell_size * (2 * lat + 2)

\* cols, rows = (screen_width // cell_size) - 1
GridDimNoBorder(size) == size \div cell_size
GridDim(size) == (size \div cell_size) - 1

\* [[1 for _ in range(cols)] for _ in range(rows)]
WallGrid(cols, rows) == [y \in 0..(rows - 1) |-> [x \in 0..(cols - 1) |-> 1]]

Rows(m) == Cardinality(DOMAIN m)
Cols(m) == Cardinality(DOMAIN m[0])

\* maze = all walls; stack = [(1, 1)]; maze[1][1] = 0
StartGrid(cols, rows) == [WallGrid(cols, rows) EXCEPT ![1][1] = 0]
StartStack == <<(<<1, 1>>)>>

\* directions = [(2, 0), (-2, 0), (0, 2), (0, -2)]; random.shuffle(directions)
Directions == <<(<<2, 0>>), (<<-2, 0>>), (<<0, 2>>), (<<0, -2>>)>>
Shuffles ==
    {p \in [1..4 -> 1..4] : \A i, j \in 1..4 : p[i] = p[j] => i = j}

\* 0 <= nx < cols and 0 <= ny < rows and maze[ny][nx] == 1
CanCarve(m, nx, ny) ==
    /\ 0 <= nx /\ nx < Cols(m)
    /\ 0 <= ny /\ ny < Rows(m)
    /\ m[ny][nx] = 1

\* The index in the shuffled order of the first direction that can be carved,
\* 0 when there is none (the for loop ends with carved = False).
FirstCarvableByMidpoint(m, cx, cy, p) ==
    LET ok == {i \in 1..4 :
                 LET d == Directions[p[i]]
                 IN  /\ 0 <= cx + d[1] /\ cx + d[1] < Cols(m)
                     /\ 0 <= cy + d[2] /\ cy + d[2] < Rows(m)
                     /\ m[cy + (d[2] \div 2)][cx + (d[1] \div 2)] = 1}
    IN  IF ok = {} THEN 0 ELSE CHOOSE i \in ok : \A j \in ok : i <= j
FirstCarvable(m, cx, cy, p) ==
    LET ok == {i \in 1..4 :
                 CanCarve(m, cx + Directions[p[i]][1], cy + Directions[p[i]][2])}
    IN  IF ok = {} THEN 0 ELSE CHOOSE i \in ok : \A j \in ok : i <= j

\* maze[ny][nx] = 0; maze[cy + dy // 2][cx + dx // 2] = 0
CarveNoMidpoint(m, cx, cy, d) ==
    [m EXCEPT ![cy + d[2]][cx + d[1]] = 0]
\* (CarveBehind opens the cell on the other side of (cx, cy) instead)
CarveBehind(m, cx, cy, d) ==
    [[m EXCEPT ![cy + d[2]][cx + d[1]] = 0]
        EXCEPT ![cy - (d[2] \div 2)][cx - (d[1] \div 2)] = 0]
CarveCell(m, cx, cy, d) ==
    [[m EXCEPT ![cy + d[2]][cx + d[1]] = 0]
        EXCEPT ![cy + (d[2] \div 2)][cx + (d[1] \div 2)] = 0]

\* One iteration of the while loop of carve_passages under the shuffle p:
\* the maze and stack after it.
CarveIteration(m, st, p) ==
    LET top == st[Len(st)]
        cx == top[1]
        cy == top[2]
        i == FirstCarvable(m, cx, cy, p)
    IN  IF i = 0
        THEN [maze |-> m, stack |-> SubSeq(st, 1, Len(st) - 1)]
        ELSE LET d == Directions[p[i]]
             IN  [maze |-> CarveCell(m, cx, cy, d),
                  stack |-> Append(st, <<cx + d[1], cy + d[2]>>)]

----------------------------------------------------------------------------
(* Carving explored one loop iteration at a time *)

MazeCols == GridDim(ArenaSize(MazeLat))
MazeRows == GridDim(ArenaSize(MazeLat))

InitMaze ==
    /\ pc = "carve"
    /\ maze = StartGrid(MazeCols, MazeRows)
    /\ stack = StartStack
    /\ pushes = SetToBag({StartStack[1]})
    /\ draws = 0
    /\ number_fruit = 0
    /\ placed = EmptyBag
    /\ fruits = 0
    /\ player_obstacles = EmptyBag
    /\ player = <<0, 0>>
    /\ is_move_y = TRUE
    /\ score = 0 /\ best_score = 0 /\ completed_level = 0
    /\ next_number_fruits = first_number_fruits
    /\ is_completed_level = FALSE /\ running = TRUE
    /\ most_more_best_score = 0 /\ most_more_completed_level = 0
    /\ last_best_score = 0 /\ last_completed_level = 0
    /\ settings = [mmbs |-> 0, mmcl |-> 0, lbs |-> 0, lcl |-> 0]
    /\ file = [kind |-> "missing", data |-> settings]
    /\ depth = 0
    /\ loaded = [mmbs |-> 0, mmcl |-> 0, lbs |-> 0, lcl |-> 0]
    /\ max_session_best = 0
    /\ sessions = 0

\* while stack: one iteration
CarveStep ==
    /\ pc = "carve"
    /\ stack # <<>>
    /\ \E p \in Shuffles :
          LET r == CarveIteration(maze, stack, p)
          IN  /\ maze' = r.maze
              /\ stack' = r.stack
              /\ pushes' = IF Len(r.stack) > Len(stack)
                            THEN pushes (+) SetToBag({r.stack[Len(r.stack)]})
                            ELSE pushes
    /\ UNCHANGED <<pc, draws, number_fruit, placed, fruits,
                   player_obstacles>>
    /\ UNCHANGED playerVars
    /\ UNCHANGED statVars

\* the while loop ends: carve_passages returns
CarveDone ==
    /\ pc = "carve"
    /\ stack = <<>>
    /\ pc' = "carved"
    /\ UNCHANGED genVars
    /\ UNCHANGED playerVars
    /\ UNCHANGED statVars

NextMaze == CarveStep \/ CarveDone

SpecMaze == InitMaze /\ [][NextMaze]_vars

\* carve_passages keeps running: an iteration that can be taken is taken
SpecMazeFair == SpecMaze /\ WF_vars(NextMaze)

----------------------------------------------------------------------------
(* generate_maze as one call: every grid carve_passages can return *)

\* The states of the while loop reachable from the states S.
RECURSIVE CarveClosure(_)
CarveClosure(S) ==
    LET N == S \cup {CarveIteration(s.maze, s.stack, p) :
                        s \in {t \in S : t.stack # <<>>}, p \in Shuffles}
    IN  IF N = S THEN S ELSE CarveClosure(N)

\* carve_passages(): the grids the loop can end with (stack empty).
CarvedMazes(cols, rows) ==
    {s.maze : s \in {t \in CarveClosure({[maze |-> StartGrid(cols, rows),
                                           stack |-> StartStack]}) :
                        t.stack = <<>>}}

GameCols == GridDim(ArenaSize(GameLat))
GameRows == GridDim(ArenaSize(GameLat))
GameMazes == CarvedMazes(GameCols, GameRows)

----------------------------------------------------------------------------
(* Fruit placement explored one draw at a time *)

\* The literal 8 of the program's 23x23 grid, in proportion on a scaled grid.
RegionStart(n) ==
    (fruit_region_start * n + GridDim(screen_width) - 1)
        \div GridDim(screen_width)

\* random.randint(a, b): a..b, both included
\* 'top':    x = randint(1, rows - 1); y = randint(8, cols - 1)
\* 'bottom': x = randint(8, rows - 1); y = randint(1, cols - 1)
FruitDraws(m) ==
    [pos : {"top"}, x : 1..(Rows(m) - 1), y : RegionStart(Cols(m))..(Cols(m) - 1)]
    \cup
    [pos : {"bottom"}, x : RegionStart(Rows(m))..(Rows(m) - 1), y : 1..(Cols(m) - 1)]

\* if maze[y][x] == 0
IsAnyCell(m, x, y) == TRUE
IsValidFruitCell(m, x, y) == m[y][x] = 0

\* GameFruit(image, x_pos + cell_size // 4, y_pos + cell_size // 5, ...):
\* the top left corner of the fruit's rect
FruitTopLeft(x, y) ==
    <<x * cell_size + (cell_size \div 4), y * cell_size + (cell_size \div 5)>>
\* cell_size - cell_size // 2.5
FruitSize == cell_size - ((2 * cell_size) \div 5)

\* The cell a pixel position lies in.
CellOf(pt) == <<pt[1] \div cell_size, pt[2] \div cell_size>>

\* for y in range(rows): for x in range(cols): if maze[y][x] == 1: Wall(...)
WallBag(m) ==
    [c \in {d \in {<<x, y>> : x \in 0..(Cols(m) - 1), y \in 0..(Rows(m) - 1)} :
               m[d[2]][d[1]] = 1} |-> 1]

Levels == 0..MaxRestarts

InitPlace ==
    /\ pc = "place"
    /\ maze \in GameMazes
    /\ stack = <<>>
    /\ pushes = EmptyBag
    /\ draws = 0
    /\ next_number_fruits \in {first_number_fruits + l : l \in Levels}
    /\ number_fruit = next_number_fruits
    /\ placed = EmptyBag
    /\ fruits = 0
    /\ player_obstacles = EmptyBag
    /\ player = <<0, 0>>
    /\ is_move_y = TRUE
    /\ score = 0 /\ best_score = 0 /\ completed_level = 0
    /\ is_completed_level = FALSE /\ running = TRUE
    /\ most_more_best_score = 0 /\ most_more_completed_level = 0
    /\ last_best_score = 0 /\ last_completed_level = 0
    /\ settings = [mmbs |-> 0, mmcl |-> 0, lbs |-> 0, lcl |-> 0]
    /\ file = [kind |-> "missing", data |-> settings]
    /\ depth = 0
    /\ loaded = [mmbs |-> 0, mmcl |-> 0, lbs |-> 0, lcl |-> 0]
    /\ max_session_best = 0
    /\ sessions = 0

\* while number_fruit != 0: one iteration, the draw accepted
PlaceFruit ==
    /\ pc = "place"
    /\ number_fruit # 0
    /\ \E d \in FruitDraws(maze) :
          /\ IsValidFruitCell(maze, d.x, d.y)
          /\ placed' = placed (+) SetToBag({FruitTopLeft(d.x, d.y)})
    /\ fruits' = fruits + 1
    /\ number_fruit' = number_fruit - 1
    /\ UNCHANGED <<pc, maze, stack, pushes, draws, player_obstacles>>
    /\ UNCHANGED playerVars
    /\ UNCHANGED statVars

\* while number_fruit != 0: one iteration, the draw on a wall: nothing changes
RedrawFruit ==
    /\ pc = "place"
    /\ number_fruit # 0
    /\ \E d \in FruitDraws(maze) : ~IsValidFruitCell(maze, d.x, d.y)
    /\ UNCHANGED vars

\* the placement loop ends
PlaceDone ==
    /\ pc = "place"
    /\ number_fruit = 0
    /\ pc' = "walls"
    /\ UNCHANGED genVars
    /\ UNCHANGED playerVars
    /\ UNCHANGED statVars

\* the two for loops that create the Wall sprites
BuildWalls ==
    /\ pc = "walls"
    /\ player_obstacles' = player_obstacles (+) WallBag(maze)
    /\ pc' = "generated"
    /\ UNCHANGED <<maze, stack, pushes, draws, number_fruit, placed,
                   fruits>>
    /\ UNCHANGED playerVars
    /\ UNCHANGED statVars

NextPlace == PlaceFruit \/ RedrawFruit \/ PlaceDone \/ BuildWalls

SpecPlace == InitPlace /\ [][NextPlace]_vars

----------------------------------------------------------------------------
(* The placement loop with its iterations counted, under SpecDraw: the     *)
(* fruits are followed as a number, as in a game session.                  *)

InitDraw ==
    /\ pc = "place"
    /\ maze \in GameMazes
    /\ stack = <<>>
    /\ pushes = EmptyBag
    /\ draws = 0
    /\ next_number_fruits \in {first_number_fruits + l : l \in Levels}
    /\ number_fruit = next_number_fruits
    /\ placed = EmptyBag
    /\ fruits = 0
    /\ player_obstacles = EmptyBag
    /\ player = <<0, 0>>
    /\ is_move_y = TRUE
    /\ score = 0 /\ best_score = 0 /\ completed_level = 0
    /\ is_completed_level = FALSE /\ running = TRUE
    /\ most_more_best_score = 0 /\ most_more_completed_level = 0
    /\ last_best_score = 0 /\ last_completed_level = 0
    /\ settings = [mmbs |-> 0, mmcl |-> 0, lbs |-> 0, lcl |-> 0]
    /\ file = [kind |-> "missing", data |-> settings]
    /\ depth = 0
    /\ loaded = [mmbs |-> 0, mmcl |-> 0, lbs |-> 0, lcl |-> 0]
    /\ max_session_best = 0
    /\ sessions = 0

\* while number_fruit != 0: one iteration, whatever the draw; the iterations
\* are followed up to MaxDraws of them.
DrawFruit ==
    /\ pc = "place"
    /\ number_fruit # 0
    /\ draws < MaxDraws
    /\ draws' = draws + 1
    /\ \E d \in FruitDraws(maze) :
          IF IsValidFruitCell(maze, d.x, d.y)
          THEN /\ fruits' = fruits + 1
               /\ number_fruit' = number_fruit - 1
          ELSE UNCHANGED <<fruits, number_fruit>>
    /\ UNCHANGED <<pc, maze, stack, pushes, placed, player_obstacles>>
    /\ UNCHANGED playerVars
    /\ UNCHANGED statVars

NextDraw == DrawFruit \/ PlaceDone \/ BuildWalls

SpecDraw == InitDraw /\ [][NextDraw]_vars

----------------------------------------------------------------------------
(* The player and the walls *)

\* The game's arena: Player(..., self.screen_width, self.screen_height, ...)
GameWidth == ArenaSize(GameLat)
GameHeight == ArenaSize(GameLat)

\* Player images are scaled to (cell_size, cell_size)
PlayerSize == cell_size

\* self.image.get_rect(center=(x, y)) with x = y = cell_size + cell_size // 2:
\* the rect's top left corner is the centre minus half the size
PlayerSpawn ==
    LET c == cell_size + (cell_size \div 2)
    IN  <<c - (PlayerSize \div 2), c - (PlayerSize \div 2)>>

Keys == {"RIGHT", "LEFT", "UP", "DOWN"}
\* The keys held during a tick: none or one arrow key.
Intents == {{}} \cup {{k} : k \in Keys}

\* Player.player_moves: the rect and the axis flag after it, for the keys held
PlayerMoves(rect, flag, keys) ==
    IF "RIGHT" \in keys /\ rect[1] + PlayerSize < GameWidth
    THEN [rect |-> <<rect[1] + player_speed, rect[2]>>, is_move_y |-> FALSE]
    ELSE IF "LEFT" \in keys /\ rect[1] > 0
    THEN [rect |-> <<rect[1] - player_speed, rect[2]>>, is_move_y |-> FALSE]
    ELSE IF "UP" \in keys /\ rect[2] > 0
    THEN [rect |-> <<rect[1], rect[2] - player_speed>>, is_move_y |-> TRUE]
    ELSE IF "DOWN" \in keys /\ rect[2] + PlayerSize < GameHeight
    THEN [rect |-> <<rect[1], rect[2] + player_speed>>, is_move_y |-> TRUE]
    ELSE [rect |-> rect, is_move_y |-> flag]

\* Wall(x * cell_size, y * cell_size, cell_size, cell_size, ...): the edges
\* and the centre of the wall on cell c
WallLeft(c) == c[1] * cell_size
WallRight(c) == c[1] * cell_size + cell_size
WallTop(c) == c[2] * cell_size
WallBottom(c) == c[2] * cell_size + cell_size
WallCenterX(c) == c[1] * cell_size + (cell_size \div 2)
WallCenterY(c) == c[2] * cell_size + (cell_size \div 2)

\* pygame.sprite.collide_rect: the rects overlap (touching edges do not)
CollidesWall(rect, c) ==
    /\ rect[1] < WallRight(c) /\ rect[1] + PlayerSize > WallLeft(c)
    /\ rect[2] < WallBottom(c) /\ rect[2] + PlayerSize > WallTop(c)

\* The four snaps of update
SnapRight(rect, c) == <<WallLeft(c) - PlayerSize, rect[2]>>
SnapLeft(rect, c) == <<WallRight(c), rect[2]>>
SnapTop(rect, c) == <<rect[1], WallBottom(c)>>
SnapBottom(rect, c) == <<rect[1], WallTop(c) - PlayerSize>>

\* The body of the for loop with the horizontal tests first whatever the flag
ResolveWallXFirst(rect, flag, c) ==
    LET right == rect[1] + PlayerSize
        left == rect[1]
        top == rect[2]
        bottom == rect[2] + PlayerSize
    IN  IF right < WallCenterX(c) THEN SnapRight(rect, c)
        ELSE IF left > WallCenterX(c) THEN SnapLeft(rect, c)
        ELSE IF top > WallCenterY(c) THEN SnapTop(rect, c)
        ELSE IF bottom < WallCenterY(c) THEN SnapBottom(rect, c)
        ELSE rect

\* The body of the for loop over the colliding walls, for one wall
ResolveWall(rect, flag, c) ==
    LET right == rect[1] + PlayerSize
        left == rect[1]
        top == rect[2]
        bottom == rect[2] + PlayerSize
    IN  IF flag
        THEN IF right < WallCenterX(c) THEN SnapRight(rect, c)
             ELSE IF left > WallCenterX(c) THEN SnapLeft(rect, c)
             ELSE IF top > WallCenterY(c) THEN SnapTop(rect, c)
             ELSE IF bottom < WallCenterY(c) THEN SnapBottom(rect, c)
             ELSE rect
        ELSE IF top > WallCenterY(c) THEN SnapTop(rect, c)
             ELSE IF bottom < WallCenterY(c) THEN SnapBottom(rect, c)
             ELSE IF right < WallCenterX(c) THEN SnapRight(rect, c)
             ELSE IF left > WallCenterX(c) THEN SnapLeft(rect, c)
             ELSE rect

\* The walls are created row by row (y outer, x inner) and the group keeps
\* that order: the first of a set of wall cells in it.
FirstWall(S) ==
    CHOOSE c \in S : \A d \in S : c[2] < d[2] \/ (c[2] = d[2] /\ c[1] <= d[1])

RECURSIVE ResolveEach(_, _, _)
ResolveEach(rect, flag, S) ==
    IF S = {} THEN rect
    ELSE LET c == FirstWall(S)
         IN  ResolveEach(ResolveWall(rect, flag, c), flag, S \ {c})

\* The pass over the walls leaving the loop after the first colliding wall
ResolveFirstWall(rect, flag, walls) ==
    LET S == {c \in BagToSet(walls) : CollidesWall(rect, c)}
    IN  IF S = {} THEN rect ELSE ResolveWall(rect, flag, FirstWall(S))

\* for obstacle_player in spritecollide(self.player, self.player_obstacles,
\* False): the list of colliding walls is taken once, before any snap
ResolveWalls(rect, flag, walls) ==
    ResolveEach(rect, flag, {c \in BagToSet(walls) : CollidesWall(rect, c)})

----------------------------------------------------------------------------
(* The game session: __init__, run_game, update, restart_game *)

ZeroSettings == [mmbs |-> 0, mmcl |-> 0, lbs |-> 0, lcl |-> 0]

\* try: load(file) except (FileNotFoundError, JSONDecodeError): defaults
LoadSettings(f) ==
    IF f.kind \in {"missing", "corrupt"} THEN ZeroSettings ELSE f.data

\* One pass of the body with the session best set to the score each time
CollectOneBestIsScore(st) ==
    LET sc == st.score + 1
        mm == IF sc > st.most_more_best_score
              THEN sc ELSE st.most_more_best_score
    IN  [score |-> sc, best_score |-> sc, most_more_best_score |-> mm]

\* One pass of the body of "for _ in spritecollide(player, fruits, True)"
CollectOne(st) ==
    LET sc == st.score + 1
        bs == IF sc > st.best_score THEN sc ELSE st.best_score
        mm == IF sc > st.best_score /\ bs > st.most_more_best_score
              THEN bs ELSE st.most_more_best_score
    IN  [score |-> sc, best_score |-> bs, most_more_best_score |-> mm]

\* The loop over the n fruits that collide with the player
RECURSIVE CollectFruits(_, _)
CollectFruits(n, st) ==
    IF n = 0 THEN st ELSE CollectFruits(n - 1, CollectOne(st))

\* if not self.fruits.sprites(): self.is_completed_level = True
\* (before: the live fruits before the collisions of this update, left: after)
LevelFlagLate(flag, before, left) == IF before = 0 THEN TRUE ELSE flag
LevelFlag(flag, before, left) == IF left = 0 THEN TRUE ELSE flag

\* self.next_number_fruits += 1
NextNumberFruitsSame(n) == n
NextNumberFruits(n) == n + 1

\* The settings as run_game writes them before it exits
SaveSettingsNoMax(st, mmbs, mmcl, best, level) ==
    [mmbs |-> best,
     mmcl |-> Max(mmcl, st.mmcl),
     lbs |-> IF best # 0 /\ level # 0 THEN best ELSE st.lbs,
     lcl |-> IF best # 0 /\ level # 0 THEN level ELSE st.lcl]
SaveSettingsEither(st, mmbs, mmcl, best, level) ==
    [mmbs |-> Max(mmbs, st.mmbs),
     mmcl |-> Max(mmcl, st.mmcl),
     lbs |-> IF best # 0 \/ level # 0 THEN best ELSE st.lbs,
     lcl |-> IF best # 0 \/ level # 0 THEN level ELSE st.lcl]
SaveSettings(st, mmbs, mmcl, best, level) ==
    [mmbs |-> Max(mmbs, st.mmbs),
     mmcl |-> Max(mmcl, st.mmcl),
     lbs |-> IF best # 0 /\ level # 0 THEN best ELSE st.lbs,
     lcl |-> IF best # 0 /\ level # 0 THEN level ELSE st.lcl]

\* The cells a draw of the placement loop can be accepted on.
FruitCells(m) ==
    {<<d.x, d.y>> : d \in {e \in FruitDraws(m) : IsValidFruitCell(m, e.x, e.y)}}

\* No process is running; settings.json does not exist yet.
Init ==
    /\ pc = "off"
    /\ maze = <<>>
    /\ stack = <<>>
    /\ pushes = EmptyBag
    /\ draws = 0
    /\ number_fruit = 0
    /\ placed = EmptyBag
    /\ fruits = 0
    /\ player_obstacles = EmptyBag
    /\ player = PlayerSpawn
    /\ is_move_y = TRUE
    /\ score = 0 /\ best_score = 0 /\ completed_level = 0
    /\ next_number_fruits = first_number_fruits
    /\ is_completed_level = FALSE /\ running = FALSE
    /\ most_more_best_score = 0 /\ most_more_completed_level = 0
    /\ last_best_score = 0 /\ last_completed_level = 0
    /\ settings = ZeroSettings
    /\ file = [kind |-> "missing", data |-> settings]
    /\ depth = 0
    /\ loaded = ZeroSettings
    /\ max_session_best = 0
    /\ sessions = 0

\* The group left as it is
KeepGroup(group) == group
\* self.player_obstacles.empty(): the group without its sprites
EmptyGroup(group) == EmptyBag

\* generate_maze as one call, with n fruits to place, live fruit sprites in
\* self.fruits and walls in self.player_obstacles before it: a grid
\* carve_passages can return, n more sprites in self.fruits (each accepted draw
\* adds one and the loop ends when n were accepted; the rects of the fruits
\* are followed under SpecPlace only), and one more Wall per wall cell.
GenerateMaze(n, live, walls) ==
    /\ maze' \in GameMazes
    /\ FruitCells(maze') # {}
    /\ stack' = <<>>
    /\ pushes' = EmptyBag
    /\ draws' = 0
    /\ number_fruit' = 0
    /\ placed' = EmptyBag
    /\ fruits' = live + n
    /\ player_obstacles' = walls (+) WallBag(maze')

\* The four keys __init__ reads from self.settings
StatKeys == {"mmbs", "mmcl", "lbs", "lcl"}
\* self.settings[key] raises no KeyError for any of the four keys
HasFields(st) == StatKeys \subseteq DOMAIN st

\* Game().run_game(): __init__ and the entry of run_game
StartSession ==
    /\ pc \in {"off", "exited"}
    /\ HasFields(LoadSettings(file))
    /\ sessions < MaxSessions
    /\ sessions' = sessions + 1
    /\ settings' = LoadSettings(file)
    /\ loaded' = LoadSettings(file)
    /\ running' = TRUE
    /\ next_number_fruits' = first_number_fruits
    /\ is_completed_level' = FALSE
    /\ most_more_best_score' = LoadSettings(file).mmbs
    /\ most_more_completed_level' = LoadSettings(file).mmcl
    /\ last_best_score' = LoadSettings(file).lbs
    /\ last_completed_level' = LoadSettings(file).lcl
    /\ score' = 0 /\ best_score' = 0 /\ completed_level' = 0
    /\ player' = PlayerSpawn
    /\ is_move_y' = TRUE      \* is_move_y = bool: the type object is truthy
    /\ GenerateMaze(first_number_fruits, 0, EmptyBag)
    /\ depth' = 1
    /\ pc' = "events"
    /\ UNCHANGED <<file, max_session_best>>

\* for event in pygame.event.get(): event.type == pygame.QUIT
EventQuit ==
    /\ pc = "events"
    /\ running' = FALSE
    /\ UNCHANGED <<pc, score, best_score, completed_level, next_number_fruits,
                   is_completed_level, most_more_best_score,
                   most_more_completed_level, last_best_score,
                   last_completed_level, settings, file, depth, loaded,
                   max_session_best, sessions>>
    /\ UNCHANGED genVars
    /\ UNCHANGED playerVars

\* event.type == pygame.KEYDOWN while the level is completed: restart_game(),
\* which ends by calling run_game() again
RestartGame ==
    /\ pc = "events"
    /\ is_completed_level
    /\ completed_level < MaxRestarts
    /\ score' = 0
    /\ is_completed_level' = FALSE
    /\ next_number_fruits' = NextNumberFruits(next_number_fruits)
    /\ GenerateMaze(NextNumberFruits(next_number_fruits), fruits,
                    EmptyGroup(player_obstacles))
    /\ player' = PlayerSpawn  \* the new Player; the old one's rect is dropped
    /\ is_move_y' = TRUE
    /\ completed_level' = completed_level + 1
    /\ depth' = depth + 1
    /\ pc' = IF running THEN "events" ELSE "save"
    /\ UNCHANGED <<best_score, running, most_more_best_score,
                   most_more_completed_level, last_best_score,
                   last_completed_level, settings, file, loaded,
                   max_session_best, sessions>>

\* event.type == pygame.KEYDOWN while the level is not completed: no effect
KeyDownIgnored ==
    /\ pc = "events"
    /\ ~is_completed_level
    /\ UNCHANGED vars

\* the for loop over the events ends; draw_game() changes no state
EventsDone ==
    /\ pc = "events"
    /\ pc' = "update"
    /\ UNCHANGED genVars
    /\ UNCHANGED playerVars
    /\ UNCHANGED statVars

\* update(): the keys held and the number of fruits whose rect collides with
\* the player's are inputs.  The keys explored keep the player within
\* MaxWalk moves of the spawn.
Update ==
    /\ pc = "update"
    /\ \E keys \in Intents :
          LET moved == PlayerMoves(player, is_move_y, keys)
              rect == ResolveWalls(moved.rect, moved.is_move_y,
                                   player_obstacles)
          IN  /\ Dist(rect, PlayerSpawn) <= MaxWalk * player_speed
              /\ player' = rect
              /\ is_move_y' = moved.is_move_y
    /\ \E hit \in 0..fruits :
          LET got == CollectFruits(hit, [score |-> score,
                                         best_score |-> best_score,
                                         most_more_best_score |->
                                             most_more_best_score])
          IN  /\ score' = got.score
              /\ best_score' = got.best_score
              /\ most_more_best_score' = got.most_more_best_score
              /\ fruits' = fruits - hit
              /\ is_completed_level' =
                    LevelFlag(is_completed_level, fruits, fruits - hit)
    /\ pc' = IF running THEN "events" ELSE "save"
    /\ UNCHANGED <<maze, stack, pushes, draws, number_fruit, placed,
                   player_obstacles>>
    /\ UNCHANGED <<completed_level, next_number_fruits, running,
                   most_more_completed_level, last_best_score,
                   last_completed_level, settings, file, depth, loaded,
                   max_session_best, sessions>>

\* after the while loop: the settings are updated and dumped, then sys.exit()
SaveAndExit ==
    /\ pc = "save"
    /\ settings' = SaveSettings(settings, most_more_best_score,
                                most_more_completed_level, best_score,
                                completed_level)
    /\ file' = [kind |-> "json", data |-> settings']
    /\ max_session_best' = Max(max_session_best, best_score)
    /\ depth' = 0
    /\ pc' = "exited"
    /\ UNCHANGED <<score, best_score, completed_level, next_number_fruits,
                   is_completed_level, running, most_more_best_score,
                   most_more_completed_level, last_best_score,
                   last_completed_level, loaded, sessions>>
    /\ UNCHANGED genVars
    /\ UNCHANGED playerVars

Next ==
    \/ StartSession
    \/ EventQuit
    \/ RestartGame
    \/ KeyDownIgnored
    \/ EventsDone
    \/ Update
    \/ SaveAndExit

Spec == Init /\ [][Next]_vars

----------------------------------------------------------------------------
(* The player's walk in one generated maze, under SpecMove: every tick is  *)
(* the first two steps of update(), player_moves() and the pass over the   *)
(* walls, with any key held and no limit on the distance from the spawn,   *)
(* in the maze of any level of a session.                                  *)

InitMove ==
    /\ pc = "move"
    /\ maze \in GameMazes
    /\ stack = <<>>
    /\ pushes = EmptyBag
    /\ draws = 0
    /\ number_fruit = 0
    /\ placed = EmptyBag
    /\ fruits = 0
    /\ player_obstacles = WallBag(maze)
    /\ player = PlayerSpawn
    /\ is_move_y = TRUE
    /\ score = 0 /\ best_score = 0
    /\ completed_level \in Levels
    /\ next_number_fruits = first_number_fruits + completed_level
    /\ is_completed_level = FALSE /\ running = TRUE
    /\ most_more_best_score = 0 /\ most_more_completed_level = 0
    /\ last_best_score = 0 /\ last_completed_level = 0
    /\ settings = ZeroSettings
    /\ file = [kind |-> "missing", data |-> settings]
    /\ depth = 1
    /\ loaded = ZeroSettings
    /\ max_session_best = 0
    /\ sessions = 1

\* self.player.player_moves() and the for loop over spritecollide
MoveTick ==
    /\ pc = "move"
    /\ \E keys \in Intents :
          LET moved == PlayerMoves(player, is_move_y, keys)
          IN  /\ player' = ResolveWalls(moved.rect, moved.is_move_y,
                                        player_obstacles)
              /\ is_move_y' = moved.is_move_y
    /\ UNCHANGED pc
    /\ UNCHANGED genVars
    /\ UNCHANGED statVars

NextMove == MoveTick

SpecMove == InitMove /\ [][NextMove]_vars

----------------------------------------------------------------------------
(* The start of the program with any settings.json, under SpecLoad: the    *)
(* file is missing, is not JSON, or is a JSON object with none, some or    *)
(* all of the four keys.                                                    *)

StoredFiles ==
    {[kind |-> k, data |-> ZeroSettings] : k \in {"missing", "corrupt"}}
        \cup {[kind |-> "json", data |-> d] :
                 d \in UNION {[K -> 0..MaxStored] : K \in SUBSET StatKeys}}

InitLoad ==
    /\ pc = "off"
    /\ file \in StoredFiles
    /\ maze = <<>>
    /\ stack = <<>>
    /\ pushes = EmptyBag
    /\ draws = 0
    /\ number_fruit = 0
    /\ placed = EmptyBag
    /\ fruits = 0
    /\ player_obstacles = EmptyBag
    /\ player = PlayerSpawn
    /\ is_move_y = TRUE
    /\ score = 0 /\ best_score = 0 /\ completed_level = 0
    /\ next_number_fruits = first_number_fruits
    /\ is_completed_level = FALSE /\ running = FALSE
    /\ most_more_best_score = 0 /\ most_more_completed_level = 0
    /\ last_best_score = 0 /\ last_completed_level = 0
    /\ settings = ZeroSettings
    /\ depth = 0
    /\ loaded = ZeroSettings
    /\ max_session_best = 0
    /\ sessions = 0

\* __init__ when the loaded object lacks one of the four keys: the KeyError
\* of self.settings[key] is not caught and ends the process
StartAborted ==
    /\ pc = "off"
    /\ ~HasFields(LoadSettings(file))
    /\ settings' = LoadSettings(file)
    /\ running' = TRUE
    /\ pc' = "aborted"
    /\ UNCHANGED <<score, best_score, completed_level, next_number_fruits,
                   is_completed_level, most_more_best_score,
                   most_more_completed_level, last_best_score,
                   last_completed_level, file, depth, loaded,
                   max_session_best, sessions>>
    /\ UNCHANGED genVars
    /\ UNCHANGED playerVars

NextLoad ==
    \/ StartSession
    \/ StartAborted

SpecLoad == InitLoad /\ [][NextLoad]_vars

----------------------------------------------------------------------------
(* Helpers of the properties of a grid *)

Cells(m) == {<<x, y>> : x \in 0..(Cols(m) - 1), y \in 0..(Rows(m) - 1)}
IsOpen(m, c) == m[c[2]][c[1]] = 0
OpenCells(m) == {c \in Cells(m) : IsOpen(m, c)}
Odd(n) == n % 2 = 1
LatticeCells(m) == {c \in Cells(m) : Odd(c[1]) /\ Odd(c[2])}
MidpointCells(m) == {c \in Cells(m) : Odd(c[1]) # Odd(c[2])}
BorderCells(m) ==
    {c \in Cells(m) : c[1] = 0 \/ c[2] = 0
                        \/ c[1] = Cols(m) - 1 \/ c[2] = Rows(m) - 1}

\* The cells of A reachable from the cells of S by steps of length k inside A.
RECURSIVE Flood(_, _, _)
Flood(A, S, k) ==
    LET N == S \cup {c \in A : \E s \in S : Dist(c, s) = k}
    IN  IF N = S THEN S ELSE Flood(A, N, k)

\* The open midpoint cell between two open lattice cells two apart.
Linked(m, a, b) ==
    /\ Dist(a, b) = 2
    /\ IsOpen(m, <<(a[1] + b[1]) \div 2, (a[2] + b[2]) \div 2>>)

RECURSIVE FloodLinked(_, _, _)
FloodLinked(m, A, S) ==
    LET N == S \cup {c \in A : \E s \in S : Linked(m, c, s)}
    IN  IF N = S THEN S ELSE FloodLinked(m, A, N)

----------------------------------------------------------------------------
(* Claims about carving, under SpecMaze *)

\* C1: when carving has finished, every open cell is reachable from (1,1)
\* by 4-neighbour steps through open cells only.
C1_Connected ==
    pc = "carved" =>
        Flood(OpenCells(maze), {<<1, 1>>}, 1) = OpenCells(maze)
C1_Witness ==
    /\ pc = "carved"
    /\ IsOpen(maze, <<Cols(maze) - 2, Rows(maze) - 2>>)
    /\ Cardinality(OpenCells(maze)) > 2 * MazeLat

\* C2: at every iteration and at the end of carving the open lattice cells
\* with the opened midpoint cells as edges form a tree: the graph is
\* connected and has one edge less than it has nodes (so it has no cycle).
C2_Tree ==
    pc \in {"carve", "carved"} =>
        LET V == LatticeCells(maze) \cap OpenCells(maze)
            E == MidpointCells(maze) \cap OpenCells(maze)
        IN  /\ Cardinality(E) = Cardinality(V) - 1
            /\ FloodLinked(maze, V, {<<1, 1>>}) = V
C2_Witness ==
    /\ pc = "carved"
    /\ Cardinality(MidpointCells(maze) \cap OpenCells(maze))
          = MazeLat * MazeLat - 1

\* C3: the 600x600 arena with 25-pixel cells gives a 23x23 grid, and at
\* every iteration and at the end of carving every border cell is a wall
\* while (1,1) is open.
C3_Border ==
    /\ GridDim(screen_width) = 23
    /\ GridDim(screen_height) = 23
    /\ GridDim(ArenaSize(11)) = 23
    /\ pc \in {"carve", "carved"} =>
          /\ \A c \in BorderCells(maze) : ~IsOpen(maze, c)
          /\ IsOpen(maze, <<1, 1>>)
C3_Witness ==
    /\ pc = "carved"
    /\ \E c \in OpenCells(maze) : c[1] = Cols(maze) - 2
    /\ \E c \in OpenCells(maze) : c[2] = Rows(maze) - 2
    /\ \A c \in BorderCells(maze) : ~IsOpen(maze, c)

----------------------------------------------------------------------------
(* Claims about fruit placement, under SpecPlace *)

\* C4: when the placement loop has finished it has created exactly the
\* requested number of fruits, and each was created on an open cell.
C4_PlacedOnOpen ==
    pc \in {"walls", "generated"} =>
        /\ BagCardinality(placed) = next_number_fruits
        /\ fruits = next_number_fruits
        /\ \A f \in BagToSet(placed) :
              /\ IsOpen(maze, CellOf(f))
              /\ CellOf(<<f[1] + FruitSize, f[2] + FruitSize>>) = CellOf(f)
C4_Witness ==
    /\ pc = "generated"
    /\ next_number_fruits > first_number_fruits
    /\ BagCardinality(placed) = next_number_fruits
    /\ Cardinality(BagToSet(placed)) = next_number_fruits

\* C5: no two fruits placed for a level share a grid cell.
C5_NoSharedCell ==
    \A f \in BagToSet(placed) : CopiesIn(f, placed) = 1

----------------------------------------------------------------------------
(* Claims about the session, under Spec *)

\* A step of restart_game.
RestartStep ==
    /\ pc = "events"
    /\ \/ is_completed_level /\ ~is_completed_level'
       \/ completed_level' # completed_level
       \/ next_number_fruits' # next_number_fruits
       \/ depth' # depth

\* C6: a restart raises the completed-level counter by exactly 1 and the
\* next level's fruit target by exactly 1, resets the score to 0, clears the
\* level-complete flag, leaves the player at the spawn position and does not
\* change the session best score.
C6_Restart ==
    [][RestartStep =>
          /\ is_completed_level
          /\ completed_level' = completed_level + 1
          /\ next_number_fruits' = next_number_fruits + 1
          /\ score' = 0
          /\ ~is_completed_level'
          /\ player' = <<cell_size, cell_size>>
          /\ player' = PlayerSpawn
          /\ best_score' = best_score]_vars
C6_Witness ==
    /\ pc = "update"
    /\ completed_level = 1
    /\ next_number_fruits = first_number_fruits + 1
    /\ score = 0
    /\ best_score = first_number_fruits
    /\ player = PlayerSpawn

\* C7: the update that removes the last fruit sets the level-complete flag
\* itself: the state goes from running to level complete in that tick.
C7_SameTick ==
    [][(fruits > 0 /\ fruits' = 0) =>
          (~is_completed_level /\ is_completed_level')]_vars
C7_Witness ==
    /\ is_completed_level
    /\ fruits = 0
    /\ score = next_number_fruits
    /\ pc \in {"events", "save"}

\* C8: after any sequence of sessions from a zeroed record, the persisted
\* all-time best score is the largest session best score of those sessions.
C8_AllTimeBest ==
    pc = "exited" => file.data.mmbs = max_session_best
C8_Witness ==
    /\ pc = "exited"
    /\ sessions > 1
    /\ best_score > 0
    /\ best_score < max_session_best
    /\ file.data.mmbs = max_session_best

\* C9: at shutdown the persisted all-time maximum of completed levels is the
\* larger of the previously persisted maximum and this session's count.
C9_MaxCompleted ==
    pc = "exited" => file.data.mmcl = Max(loaded.mmcl, completed_level)

\* C10: at shutdown the persisted last-session best score and completed
\* levels are this session's values if both are non-zero, and otherwise the
\* values that were loaded.
C10_LastSession ==
    pc = "exited" =>
        IF best_score # 0 /\ completed_level # 0
        THEN file.data.lbs = best_score /\ file.data.lcl = completed_level
        ELSE file.data.lbs = loaded.lbs /\ file.data.lcl = loaded.lcl
C10_Witness ==
    /\ pc = "exited"
    /\ loaded.lbs # 0
    /\ best_score # 0
    /\ completed_level = 0
    /\ file.data.lbs = loaded.lbs
    /\ file.data.lcl = loaded.lcl

----------------------------------------------------------------------------
(* Claims about the player and the walls, under SpecMove *)

\* The rect and the wall each iteration of the for loop over the colliding
\* walls starts with, for the rect after player_moves.
RECURSIVE ResolveSteps(_, _, _)
ResolveSteps(rect, flag, S) ==
    IF S = {} THEN {}
    ELSE LET c == FirstWall(S)
         IN  {[rect |-> rect, wall |-> c]}
                 \cup ResolveSteps(ResolveWall(rect, flag, c), flag, S \ {c})

\* The iterations of the pass over the walls in the tick with the keys held.
TickSteps(keys) ==
    LET moved == PlayerMoves(player, is_move_y, keys)
    IN  ResolveSteps(moved.rect, moved.is_move_y,
                     {c \in BagToSet(player_obstacles) :
                         CollidesWall(moved.rect, c)})

\* The order of the edge tests for a last movement that was vertical (TRUE)
\* or horizontal (FALSE).
SnapOrder(flag) ==
    IF flag THEN <<"right", "left", "top", "bottom">>
    ELSE <<"top", "bottom", "right", "left">>

\* The edge test named t, of the player's rect against the wall's centre.
EdgeTest(t, rect, c) ==
    CASE t = "right" -> rect[1] + PlayerSize < WallCenterX(c)
      [] t = "left" -> rect[1] > WallCenterX(c)
      [] t = "top" -> rect[2] > WallCenterY(c)
      [] t = "bottom" -> rect[2] + PlayerSize < WallCenterY(c)

\* after is rect with the one edge named t put on the wall's opposite edge.
EdgeSnapped(t, rect, after, c) ==
    CASE t = "right" ->
            after[1] + PlayerSize = WallLeft(c) /\ after[2] = rect[2]
      [] t = "left" -> after[1] = WallRight(c) /\ after[2] = rect[2]
      [] t = "top" -> after[2] = WallBottom(c) /\ after[1] = rect[1]
      [] t = "bottom" ->
            after[2] + PlayerSize = WallTop(c) /\ after[1] = rect[1]

\* C11: for each wall the player overlaps after moving, the pass applies at
\* most one edge snap, the one of the first matching test in the order fixed
\* by the last-movement-axis flag (vertical: right, left, top, bottom;
\* horizontal: top, bottom, right, left); in particular a player that moved
\* right into a wall whose centre is to its right, with neither the top nor
\* the bottom test matching, gets its right edge on the wall's left edge.
C11_SnapOrder ==
    \A keys \in Intents :
       LET flag == PlayerMoves(player, is_move_y, keys).is_move_y
       IN  \A s \in TickSteps(keys) :
              LET after == ResolveWall(s.rect, flag, s.wall)
                  order == SnapOrder(flag)
                  hits == {i \in 1..4 : EdgeTest(order[i], s.rect, s.wall)}
              IN  /\ IF hits = {} THEN after = s.rect
                     ELSE \E i \in hits :
                             /\ \A j \in hits : i <= j
                             /\ EdgeSnapped(order[i], s.rect, after, s.wall)
                  /\ (/\ keys = {"RIGHT"}
                      /\ ~flag
                      /\ EdgeTest("right", s.rect, s.wall)
                      /\ ~EdgeTest("top", s.rect, s.wall)
                      /\ ~EdgeTest("bottom", s.rect, s.wall))
                        => after[1] + PlayerSize = WallLeft(s.wall)
\* The player stands against a wall to its right and RIGHT is held: the move
\* overlaps the wall and the pass puts the player's right edge back on the
\* wall's left edge; elsewhere the order decides between two matching tests.
C11_Witness ==
    /\ pc = "move"
    /\ \E s \in TickSteps({"RIGHT"}) :
          /\ PlayerMoves(player, is_move_y, {"RIGHT"}).is_move_y = FALSE
          /\ EdgeTest("right", s.rect, s.wall)
          /\ ~EdgeTest("top", s.rect, s.wall)
          /\ ~EdgeTest("bottom", s.rect, s.wall)
          /\ s.rect[1] + PlayerSize > WallLeft(s.wall)
          /\ ResolveWalls(PlayerMoves(player, is_move_y, {"RIGHT"}).rect,
                          FALSE, player_obstacles)[1] + PlayerSize
                = WallLeft(s.wall)
    /\ \E keys \in Intents : \E s \in TickSteps(keys) :
          /\ EdgeTest("right", s.rect, s.wall)
          /\ EdgeTest("bottom", s.rect, s.wall)

\* The rect the pass over the walls gives in the tick with the keys held.
TickResolved(keys) ==
    LET moved == PlayerMoves(player, is_move_y, keys)
    IN  ResolveWalls(moved.rect, moved.is_move_y, player_obstacles)

\* C12: collision resolution is idempotent: for every position the player
\* reaches by one movement step in a generated maze, a second pass over the
\* walls on the rect the first pass produced, with no movement between,
\* leaves the rect unchanged.
C12_Idempotent ==
    \A keys \in Intents :
       LET flag == PlayerMoves(player, is_move_y, keys).is_move_y
       IN  ResolveWalls(TickResolved(keys), flag, player_obstacles)
              = TickResolved(keys)

\* A tick whose move overlaps two walls and whose pass moves the rect back.
C12_Witness ==
    /\ pc = "move"
    /\ \E keys \in Intents :
          /\ Cardinality(TickSteps(keys)) >= 2
          /\ TickResolved(keys) # PlayerMoves(player, is_move_y, keys).rect
          /\ \E s \in TickSteps(keys) : s.rect[1] # player[1]
          /\ \E s \in TickSteps(keys) : s.rect[2] # player[2]
          /\ ResolveWalls(TickResolved(keys),
                          PlayerMoves(player, is_move_y, keys).is_move_y,
                          player_obstacles) = TickResolved(keys)

----------------------------------------------------------------------------
(* More claims about the session, under Spec *)

\* C13: a restart is a state reset inside the one loop that owns the game:
\* while the process runs, after any number of restarts, exactly one
\* invocation of run_game is active.
C13_OneRunLoop ==
    pc \in {"events", "update", "save"} => depth = 1

----------------------------------------------------------------------------
(* Claims about the start of the program, under SpecLoad *)

\* settings.json is missing, is not JSON, or lacks one of the four fields.
Unusable(f) == f.kind \in {"missing", "corrupt"} \/ ~HasFields(f.data)

\* C14: the start never aborts because of the stored record: when the record
\* is missing or cannot be parsed, a readable file that lacks one of the four
\* fields included, the game starts with all four statistics equal to zero.
C14_StartsFromZero ==
    /\ pc # "aborted"
    /\ (pc = "events" /\ Unusable(file)) =>
          /\ most_more_best_score = 0
          /\ most_more_completed_level = 0
          /\ last_best_score = 0
          /\ last_completed_level = 0

----------------------------------------------------------------------------
(* Claims about the end of carving, under SpecMazeFair *)

\* An iteration of the while loop that pushes a cell that was a wall.
PushesWall ==
    /\ Len(stack') = Len(stack) + 1
    /\ SubSeq(stack', 1, Len(stack)) = stack
    /\ LET c == stack'[Len(stack')]
       IN  maze[c[2]][c[1]] = 1 /\ maze'[c[2]][c[1]] = 0
\* An iteration of the while loop that pops the top of the stack.
PopsTop ==
    /\ stack # <<>>
    /\ stack' = SubSeq(stack, 1, Len(stack) - 1)
    /\ maze' = maze

\* C15: carving terminates for every sequence of direction orders: the stack
\* is empty in the end, each lattice cell is pushed at most once, and every
\* loop iteration either pushes a cell that was a wall or pops the top of the
\* stack.
C15_Terminates ==
    /\ <>(stack = <<>> /\ pc = "carved")
    /\ [](\A c \in BagToSet(pushes) :
             /\ CopiesIn(c, pushes) = 1
             /\ c \in LatticeCells(maze))
    /\ [][(pc = "carve" /\ pc' = "carve") => (PushesWall \/ PopsTop)]_vars
\* carve_passages has returned after every lattice cell was pushed once.
C15_Witness ==
    /\ pc = "carved"
    /\ stack = <<>>
    /\ BagToSet(pushes) = LatticeCells(maze)
    /\ BagCardinality(pushes) = MazeLat * MazeLat

----------------------------------------------------------------------------
(* Claims about the length of fruit placement, under SpecDraw *)

\* C16: fruit placement is bounded: the loop makes at most a fixed number of
\* draws for a level and at that number places the remaining fruits by a
\* scan of the open cells instead of drawing again, so that once the draws
\* counted reach the maximum no fruit is left to place.
C16_BoundedDraws ==
    draws >= MaxDraws => number_fruit = 0

----------------------------------------------------------------------------
(* Claims about the score and the level, under Spec *)

\* C17: in every state of a session the score is at most the session best
\* score, which is at most the all-time best score in memory; every fruit
\* collected raises the score by exactly 1; the session best and the
\* all-time best never decrease during a session, restarts included.
C17_ScoreOrder ==
    /\ [](score <= best_score /\ best_score <= most_more_best_score)
    /\ [][pc = "update" => score' = score + (fruits - fruits')]_vars
    /\ [][(pc \in {"events", "update", "save"}) =>
             (best_score' >= best_score
                 /\ most_more_best_score' >= most_more_best_score)]_vars
\* In a second session, after a restart: a fruit of the second level is
\* collected, the session best is the first level's and the all-time best
\* the first session's.
C17_Witness ==
    /\ pc = "events"
    /\ sessions = 2
    /\ completed_level = 1
    /\ score > 0
    /\ score < best_score
    /\ best_score < most_more_best_score


\* C18: at every tick of every level, after any number of restarts, the wall
\* group holds exactly one Wall for each wall cell of the current level's
\* grid and no Wall of an earlier level's grid: a restart replaces the
\* group, it does not add to it.
C18_WallsOfLevel ==
    pc \in {"events", "update", "save"} =>
        /\ BagToSet(player_obstacles) \subseteq Cells(maze)
        /\ \A c \in Cells(maze) :
              CopiesIn(c, player_obstacles) = IF IsOpen(maze, c) THEN 0 ELSE 1
\* A tick of the second level of a session.
C18_Witness ==
    /\ pc = "update"
    /\ completed_level = 1
    /\ depth = 2
    /\ BagCardinality(player_obstacles)
          = Cardinality(Cells(maze) \ OpenCells(maze))
    /\ BagToSet(player_obstacles) = Cells(maze) \ OpenCells(maze)


\* C19: at every tick boundary the score plus the number of live fruits is
\* the fruit target of the current level, and that target is 3 plus the
\* number of levels completed in the session; hence when the level is
\* complete the score is 3 plus the completed-level count.
C19_ScorePlusFruits ==
    pc \in {"events", "update", "save"} =>
        /\ score + fruits = next_number_fruits
        /\ next_number_fruits = 3 + completed_level
        /\ is_completed_level => score = 3 + completed_level
\* The second level of a session is complete: 4 fruits collected.
C19_Witness ==
    /\ pc = "events"
    /\ is_completed_level
    /\ completed_level = 1
    /\ fruits = 0
    /\ score = 4


\* C20: after every tick the level-complete flag is set if and only if no
\* fruit is alive; once set it stays set, and the score and the counters
\* stay as they are, until a restart; a key event while the flag is not set
\* starts no restart and changes no score, counter, maze or fruit.
C20_FlagAndKeys ==
    /\ []((pc \in {"events", "update", "save"}) =>
             (is_completed_level <=> fruits = 0))
    /\ [][(is_completed_level /\ depth' = depth) =>
             (is_completed_level' /\ score' = score /\ fruits' = fruits
                 /\ best_score' = best_score
                 /\ completed_level' = completed_level
                 /\ next_number_fruits' = next_number_fruits)]_vars
    /\ [][(pc = "events" /\ ~is_completed_level) =>
             (depth' = depth /\ ~is_completed_level'
                 /\ score' = score /\ best_score' = best_score
                 /\ completed_level' = completed_level
                 /\ next_number_fruits' = next_number_fruits
                 /\ maze' = maze /\ player_obstacles' = player_obstacles
                 /\ fruits' = fruits)]_vars
\* The second level is complete and a tick has passed the events with the
\* flag set and no restart.
C20_Witness ==
    /\ pc = "update"
    /\ is_completed_level
    /\ fruits = 0
    /\ completed_level = 1
    /\ depth = 2

----------------------------------------------------------------------------
(* Claims about the cells of the carved grid, under SpecMaze *)

\* The step pushes a lattice cell two cells away from the lattice cell on top
\* of the stack, and c is the cell between the two.
CarvedMidpoint(c) ==
    /\ stack # <<>>
    /\ Len(stack') = Len(stack) + 1
    /\ LET from == stack[Len(stack)]
           to == stack'[Len(stack')]
       IN  /\ from \in LatticeCells(maze)
           /\ to \in LatticeCells(maze)
           /\ Abs(to[1] - from[1]) + Abs(to[2] - from[2]) = 2
           /\ 2 * c[1] = from[1] + to[1]
           /\ 2 * c[2] = from[2] + to[2]

\* C21: when carving has finished every cell with both coordinates odd is
\* open and every cell with both coordinates even is a wall; a cell with
\* exactly one odd coordinate is opened only as the midpoint of a carved step
\* between two lattice cells; a cell only ever goes from wall to open.
C21_CellParity ==
    /\ [](pc = "carved" =>
             \A c \in Cells(maze) :
                /\ (Odd(c[1]) /\ Odd(c[2])) => IsOpen(maze, c)
                /\ (~Odd(c[1]) /\ ~Odd(c[2])) => ~IsOpen(maze, c))
    /\ [][\A c \in MidpointCells(maze) :
             (~IsOpen(maze, c) /\ IsOpen(maze', c)) => CarvedMidpoint(c)]_vars
    /\ [][\A c \in Cells(maze) : IsOpen(maze, c) => IsOpen(maze', c)]_vars
\* Carving has finished with some midpoint cells opened and some left walls.
C21_Witness ==
    /\ pc = "carved"
    /\ LatticeCells(maze) \subseteq OpenCells(maze)
    /\ \E c \in MidpointCells(maze) \ BorderCells(maze) : IsOpen(maze, c)
    /\ \E c \in MidpointCells(maze) \ BorderCells(maze) : ~IsOpen(maze, c)

====
